---- MODULE Spec2Model ----
(***************************************************************************)
(* arglet (src/index.ts): merge command-line flags into a configuration   *)
(* object that serves as its own schema.                                   *)
(*                                                                         *)
(* Strings are sequences of one-character strings, so that startsWith,     *)
(* includes, slice and split are computed character by character.  Objects *)
(* and arrays live in a heap and are addressed by identity, so that        *)
(* aliasing between the schema and the working copy is observable.  The    *)
(* `in` operator and property reads follow the prototype chain, as in      *)
(* JavaScript; property writes go to the receiver, except for the          *)
(* __proto__ accessor.                                                     *)
(*                                                                         *)
(* The token list is always given explicitly (the process.argv default is  *)
(* the same list supplied by the host).  opts.debug only selects whether   *)
(* console.debug lines are printed and is left out.  Array `length` and    *)
(* numeric path segments are outside the flag names drawn in Init.         *)
(***************************************************************************)
EXTENDS Integers, Sequences, FiniteSets, TLC

VARIABLES heap, data, userOptions, args, result, opts, index, pc, flag

vars == <<heap, data, userOptions, args, result, opts, index, pc, flag>>

----------------------------------------------------------------------------
(* Bounds *)

\* longest token list handed to arglet
MaxArgs == 2

----------------------------------------------------------------------------
(* Strings *)

Dashes == <<"-", "-">>
NoPrefix == <<"n", "o", "-">>
ProtoKey == <<"_", "_", "p", "r", "o", "t", "o", "_", "_">>
ToStringKey == <<"t", "o", "S", "t", "r", "i", "n", "g">>
DigitChars == <<"0", "1", "2", "3", "4", "5", "6", "7", "8", "9">>

\* String.prototype.startsWith
StartsWith(s, p) ==
  /\ Len(s) >= Len(p)
  /\ SubSeq(s, 1, Len(p)) = p

\* String.prototype.includes, for a one-character needle
Includes(s, c) == \E i \in 1..Len(s) : s[i] = c

\* String.prototype.slice(n)
Slice(s, n) == SubSeq(s, n + 1, Len(s))

\* position of the first occurrence of character c in s, 0 when absent
RECURSIVE IndexOfFrom(_, _, _)
IndexOfFrom(s, c, i) ==
  IF i > Len(s) THEN 0
  ELSE IF s[i] = c THEN i
  ELSE IndexOfFrom(s, c, i + 1)

\* String.prototype.split(c), for a one-character separator: every piece
\* between occurrences of c, empty pieces included
RECURSIVE Split(_, _)
Split(s, c) ==
  LET i == IndexOfFrom(s, c, 1)
  IN  IF i = 0 THEN <<s>>
      ELSE <<SubSeq(s, 1, i - 1)>> \o Split(SubSeq(s, i + 1, Len(s)), c)

\* the property name of array index n
RECURSIVE IndexKey(_)
IndexKey(n) ==
  IF n < 10 THEN <<DigitChars[n + 1]>>
  ELSE IndexKey(n \div 10) \o <<DigitChars[(n % 10) + 1]>>

----------------------------------------------------------------------------
(* Values and the heap *)

VStr(s) == [t |-> "string", v |-> s]
VBool(b) == [t |-> "boolean", v |-> b]
VNum(n) == [t |-> "number", v |-> n]
VRef(id) == [t |-> "ref", v |-> id]
VNull == [t |-> "null", v |-> 0]
VUndefined == [t |-> "undefined", v |-> 0]
VFunction == [t |-> "function", v |-> 0]

\* the typeof operator
TypeOf(x) == IF x.t \in {"ref", "null"} THEN "object" ELSE x.t

NoProps == [k \in {} |-> VUndefined]

\* an object or array of the heap: its prototype (0: none) and own properties
Obj(kind, proto, props) == [kind |-> kind, proto |-> proto, props |-> props]

\* Object.prototype and Array.prototype, shared by every object of the realm
ObjectPrototype == 1
ArrayPrototype == 2

BuiltinHeap ==
  << Obj("object", 0, (ToStringKey :> VFunction)),
     Obj("object", ObjectPrototype, (ToStringKey :> VFunction)) >>

\* the `in` operator: own or inherited property; __proto__ is an accessor
\* of Object.prototype
RECURSIVE HasProperty(_, _, _)
HasProperty(h, id, key) ==
  \/ key \in DOMAIN h[id].props
  \/ key = ProtoKey
  \/ /\ h[id].proto # 0
     /\ HasProperty(h, h[id].proto, key)

\* a property read, obj[key]
RECURSIVE GetProperty(_, _, _)
GetProperty(h, id, key) ==
  IF key \in DOMAIN h[id].props THEN h[id].props[key]
  ELSE IF key = ProtoKey
    THEN (IF h[id].proto = 0 THEN VNull ELSE VRef(h[id].proto))
  ELSE IF h[id].proto # 0 THEN GetProperty(h, h[id].proto, key)
  ELSE VUndefined

\* a property write, obj[key] = value: an own property of the receiver,
\* except that the __proto__ setter replaces the prototype when given an
\* object or null and ignores every other value
SetProperty(h, id, key, value) ==
  IF key = ProtoKey /\ key \notin DOMAIN h[id].props
  THEN IF value.t = "ref" THEN [h EXCEPT ![id].proto = value.v]
       ELSE IF value.t = "null" THEN [h EXCEPT ![id].proto = 0]
       ELSE h
  ELSE [h EXCEPT ![id].props =
          [k \in (DOMAIN h[id].props) \cup {key} |->
             IF k = key THEN value ELSE h[id].props[k]]]

\* objects reachable from id through own properties, id included
RECURSIVE ReachFrom(_, _, _)
ReachFrom(h, todo, seen) ==
  IF todo = {} THEN seen
  ELSE LET id == CHOOSE x \in todo : TRUE
           kids == {h[id].props[k].v :
                      k \in {q \in DOMAIN h[id].props : h[id].props[q].t = "ref"}}
       IN  ReachFrom(h, (todo \cup kids) \ (seen \cup {id}), seen \cup {id})

Reach(h, id) == ReachFrom(h, {id}, {})

\* structural equality of the value x in heap h1 and the value y in heap h2,
\* by own properties
RECURSIVE DeepEqual(_, _, _, _)
DeepEqual(h1, x, h2, y) ==
  IF x.t # y.t THEN FALSE
  ELSE IF x.t # "ref" THEN x = y
  ELSE /\ h1[x.v].kind = h2[y.v].kind
       /\ DOMAIN h1[x.v].props = DOMAIN h2[y.v].props
       /\ \A k \in DOMAIN h1[x.v].props :
            DeepEqual(h1, h1[x.v].props[k], h2, h2[y.v].props[k])

----------------------------------------------------------------------------
(* Deep clone *)

\* a fresh object appended to the heap; its identity is Len of the new heap
Allocate(h, kind) ==
  Append(h, Obj(kind, IF kind = "array" THEN ArrayPrototype ELSE ObjectPrototype,
                NoProps))

\* an own data property defined on a fresh object (no setter is involved)
DefineOwn(h, id, key, value) ==
  [h EXCEPT ![id].props =
     [k \in (DOMAIN h[id].props) \cup {key} |->
        IF k = key THEN value ELSE h[id].props[k]]]

\* structuredClone of the value x: [h |-> the heap with the copy, v |-> the copy].
\* Every object and array met is copied into a fresh one.
RECURSIVE CloneValue(_, _)
RECURSIVE CloneProps(_, _, _, _)
CloneValue(h, x) ==
  IF x.t # "ref" THEN [h |-> h, v |-> x]
  ELSE LET h1 == Allocate(h, h[x.v].kind)
           id == Len(h1)
       IN  [h |-> CloneProps(h1, x.v, id, DOMAIN h[x.v].props), v |-> VRef(id)]

CloneProps(h, src, dst, keys) ==
  IF keys = {} THEN h
  ELSE LET k == CHOOSE q \in keys : TRUE
           r == CloneValue(h, h[src].props[k])
       IN  CloneProps(DefineOwn(r.h, dst, k, r.v), src, dst, keys \ {k})

structuredClone(h, id) == CloneValue(h, VRef(id))

----------------------------------------------------------------------------
(* Path resolver and assigner *)

\* resolveValueAtPath: reduce over path.split("."), from the working copy
RECURSIVE ResolveFrom(_, _, _, _)
ResolveFrom(h, current, segments, i) ==
  IF i > Len(segments) THEN current
  ELSE IF current.t = "ref" /\ HasProperty(h, current.v, segments[i])
    THEN ResolveFrom(h, GetProperty(h, current.v, segments[i]), segments, i + 1)
  ELSE ResolveFrom(h, VUndefined, segments, i + 1)

resolveValueAtPath(h, res, path) == ResolveFrom(h, VRef(res), Split(path, "."), 1)

\* hasConfigPath without the existence test: every path counts as known
hasConfigPathAlways(h, res, path) == TRUE

hasConfigPath(h, res, path) == resolveValueAtPath(h, res, path) # VUndefined

\* assignValueAtPath: the heap after the assignment
RECURSIVE AssignFrom(_, _, _, _, _)
AssignFrom(h, currentNode, segments, i, value) ==
  IF i > Len(segments) THEN h
  ELSE LET segment == segments[i]
           cur == GetProperty(h, currentNode, segment)
           h1 == Allocate(h, "object")
           h2 == IF cur.t = "ref" THEN h
                 ELSE SetProperty(h1, currentNode, segment, VRef(Len(h1)))
       IN  IF segment = <<>> THEN h
           ELSE IF i = Len(segments) THEN SetProperty(h, currentNode, segment, value)
           ELSE AssignFrom(h2, GetProperty(h2, currentNode, segment).v,
                           segments, i + 1, value)

assignValueAtPath(h, res, path, value) ==
  AssignFrom(h, res, Split(path, "."), 1, value)

----------------------------------------------------------------------------
(* parseFlag *)

\* an optional string: undefined, or the string s
Undefined == [def |-> FALSE, s |-> <<>>]
Some(s) == [def |-> TRUE, s |-> s]

\* the locals of one parseFlag call, kept for inspection
Locals(outcome, name, raw, path, negated, etype, parsed) ==
  [outcome |-> outcome, name |-> name, raw |-> raw, path |-> path,
   negated |-> negated, etype |-> etype, parsed |-> parsed]

NoLocals == Locals("none", <<>>, Undefined, <<>>, FALSE, "undefined", VUndefined)

\* rawValue.split(opts.arraySeparator) as a fresh array of strings:
\* [h |-> the heap with the array, v |-> the array]
SplitToArray(h, rawValue, separator) ==
  LET parts == Split(rawValue, separator)
      h1 == Allocate(h, "array")
      id == Len(h1)
  IN  [h |-> [h1 EXCEPT ![id].props =
                [k \in {IndexKey(n - 1) : n \in 1..Len(parts)} |->
                   VStr(parts[CHOOSE n \in 1..Len(parts) : IndexKey(n - 1) = k])]],
       v |-> VRef(id)]

\* Coerce with the separator fixed to ",", whatever is configured
CoerceCommaOnly(h, rawValue, separator) ==
  IF Includes(rawValue, ",") THEN SplitToArray(h, rawValue, ",")
  ELSE [h |-> h, v |-> VStr(rawValue)]

\* the value a flag with a raw value assigns (src/index.ts:187-194):
\* [h |-> heap after, v |-> the value]
Coerce(h, rawValue, separator) ==
  IF Includes(rawValue, separator) THEN SplitToArray(h, rawValue, separator)
  ELSE [h |-> h, v |-> VStr(rawValue)]

\* ParsedValue without the boolean test on a bare flag
ParsedValueUnchecked(h, existingValue, isDisabledFlag, rawValue, separator) ==
  LET coerced == Coerce(h, rawValue.s, separator)
  IN  IF isDisabledFlag
        THEN (IF TypeOf(existingValue) # "boolean"
              THEN [h |-> h, v |-> VUndefined, thrown |-> TRUE]
              ELSE [h |-> h, v |-> VBool(FALSE), thrown |-> FALSE])
      ELSE IF ~rawValue.def
        THEN [h |-> h, v |-> VBool(TRUE), thrown |-> FALSE]
      ELSE [h |-> coerced.h, v |-> coerced.v, thrown |-> FALSE]

\* ParsedValue with a bare flag that toggles the boolean instead of setting it
ParsedValueToggle(h, existingValue, isDisabledFlag, rawValue, separator) ==
  LET coerced == Coerce(h, rawValue.s, separator)
      throw == [h |-> h, v |-> VUndefined, thrown |-> TRUE]
  IN  IF isDisabledFlag
        THEN (IF TypeOf(existingValue) # "boolean" THEN throw
              ELSE [h |-> h, v |-> VBool(FALSE), thrown |-> FALSE])
      ELSE IF ~rawValue.def
        THEN (IF TypeOf(existingValue) # "boolean" THEN throw
              ELSE [h |-> h, v |-> VBool(~existingValue.v), thrown |-> FALSE])
      ELSE [h |-> coerced.h, v |-> coerced.v, thrown |-> FALSE]

\* the chain that decides parsedValue (src/index.ts:173-194):
\* [h |-> heap after, v |-> parsedValue, thrown |-> whether it threw]
ParsedValue(h, existingValue, isDisabledFlag, rawValue, separator) ==
  LET coerced == Coerce(h, rawValue.s, separator)
      throw == [h |-> h, v |-> VUndefined, thrown |-> TRUE]
  IN  IF isDisabledFlag
        THEN (IF TypeOf(existingValue) # "boolean" THEN throw
              ELSE [h |-> h, v |-> VBool(FALSE), thrown |-> FALSE])
      ELSE IF ~rawValue.def
        THEN (IF TypeOf(existingValue) # "boolean" THEN throw
              ELSE [h |-> h, v |-> VBool(TRUE), thrown |-> FALSE])
      ELSE [h |-> coerced.h, v |-> coerced.v, thrown |-> FALSE]

\* parseFlag(flagName, rawValue) on the working copy res:
\* [h |-> heap after, thrown |-> whether it threw, locals |-> its locals]
parseFlag(h, res, separator, flagName, rawValue) ==
  LET isDisabledFlag == StartsWith(flagName, NoPrefix)
      normalizedPath == IF isDisabledFlag THEN Slice(flagName, 3) ELSE flagName
      existingValue == resolveValueAtPath(h, res, normalizedPath)
      p == ParsedValue(h, existingValue, isDisabledFlag, rawValue, separator)
      L(outcome, parsed) ==
        Locals(outcome, flagName, rawValue, normalizedPath, isDisabledFlag,
               TypeOf(existingValue), parsed)
  IN  IF flagName = <<>>
        THEN [h |-> h, thrown |-> FALSE,
              locals |-> Locals("noname", flagName, rawValue, <<>>, FALSE,
                                "undefined", VUndefined)]
      ELSE IF ~hasConfigPath(h, res, normalizedPath)
        THEN [h |-> h, thrown |-> FALSE, locals |-> L("ignored", VUndefined)]
      ELSE IF p.thrown
        THEN [h |-> h, thrown |-> TRUE, locals |-> L("thrown", VUndefined)]
      ELSE [h |-> assignValueAtPath(p.h, res, normalizedPath, p.v),
            thrown |-> FALSE, locals |-> L("assigned", p.v)]

\* one iteration of the argument loop at position i (0-based):
\* the parseFlag call it makes, or no call for a token that is not a flag
LoopBody(h, res, separator, argv, i) ==
  LET rawArgument == argv[i + 1]
      stripped == Slice(rawArgument, 2)
      pieces == Split(stripped, "=")
      nextToken == IF i + 2 <= Len(argv) THEN Some(argv[i + 2]) ELSE Undefined
      flagValue == IF nextToken.def /\ nextToken.s # <<>>
                      /\ ~StartsWith(nextToken.s, Dashes)
                   THEN nextToken ELSE Undefined
  IN  IF ~StartsWith(rawArgument, Dashes)
        THEN [h |-> h, thrown |-> FALSE, locals |-> NoLocals]
      ELSE IF Includes(stripped, "=")
        THEN parseFlag(h, res, separator, pieces[1], Some(pieces[2]))
      ELSE parseFlag(h, res, separator, stripped, flagValue)

\* opts.arraySeparator: the default "," overlaid with the caller's option
ResolveSeparator(uo) == IF uo.def THEN uo.s[1] ELSE ","

\* the argument loop from position i on:
\* [h |-> heap after, thrown |-> whether a flag threw, result |-> working copy]
RECURSIVE RunLoop(_, _, _, _, _)
RunLoop(h, res, separator, argv, i) ==
  IF i >= Len(argv) THEN [h |-> h, thrown |-> FALSE, result |-> res]
  ELSE LET r == LoopBody(h, res, separator, argv, i)
       IN  IF r.thrown THEN [h |-> r.h, thrown |-> TRUE, result |-> res]
           ELSE RunLoop(r.h, res, separator, argv, i + 1)

\* a whole call arglet(d, argv, uo) in heap h
arglet(h, d, argv, uo) ==
  LET c == structuredClone(h, d)
  IN  RunLoop(c.h, c.v.v, ResolveSeparator(uo), argv, 0)

----------------------------------------------------------------------------
(* Inputs *)

KeyV == <<"v">>
KeyS == <<"s">>
KeyA == <<"a">>
KeyB == <<"b">>
KeyC == <<"c">>
PathAB == <<"a", ".", "b">>
PathAC == <<"a", ".", "c">>
PathU == <<"u">>
PathProtoToString == ProtoKey \o <<".">> \o ToStringKey

\* { v: false, s: "h", a: { b: "1", c: true } }
SchemaNested ==
  BuiltinHeap \o
  << Obj("object", ObjectPrototype,
         [k \in {KeyV, KeyS, KeyA} |->
            IF k = KeyV THEN VBool(FALSE)
            ELSE IF k = KeyS THEN VStr(<<"h">>) ELSE VRef(4)]),
     Obj("object", ObjectPrototype,
         [k \in {KeyB, KeyC} |->
            IF k = KeyB THEN VStr(<<"1">>) ELSE VBool(TRUE)]) >>

\* { v: true, s: 23, a: ["i"] }
SchemaArray ==
  BuiltinHeap \o
  << Obj("object", ObjectPrototype,
         [k \in {KeyV, KeyS, KeyA} |->
            IF k = KeyV THEN VBool(TRUE)
            ELSE IF k = KeyS THEN VNum(23) ELSE VRef(4)]),
     Obj("array", ArrayPrototype, (IndexKey(0) :> VStr(<<"i">>))) >>

\* { s: null }
SchemaNull ==
  BuiltinHeap \o << Obj("object", ObjectPrototype, (KeyS :> VNull)) >>

Schemas == {SchemaNested, SchemaArray, SchemaNull}

\* the schema object in each of them
SchemaRoot == 3

Names == {KeyV, KeyS, KeyA, PathAB, PathU, PathProtoToString}
NegatedNames == {KeyV, KeyS, PathU}
ValuedNames == {KeyV, KeyS, PathAB}

ValX == <<"x">>
ValEmpty == <<>>
ValEq == <<"p", "=", "q">>
ValComma == <<"1", ",", "2">>
ValPipe == <<"1", "|", "2">>
RawValues == {ValX, ValEmpty, ValEq, ValComma, ValPipe}

BareTokens == {Dashes \o n : n \in Names}
NegationTokens == {Dashes \o NoPrefix \o n : n \in NegatedNames}
ValuedTokens ==
  {Dashes \o n \o <<"=">> \o v : n \in ValuedNames, v \in RawValues}
  \cup {Dashes \o n \o <<"=">> \o ValX : n \in Names}
PlainTokens == {ValX, ValEmpty, <<"-", "x">>}

Tokens == BareTokens \cup NegationTokens \cup ValuedTokens \cup PlainTokens

ArgLists == UNION {[1..n -> Tokens] : n \in 0..MaxArgs}

\* the caller's options: {} or { arraySeparator: "|" }
UserOptions == {Undefined, Some(<<"|">>)}

----------------------------------------------------------------------------
(* The call arglet(data, args, userOptions) *)

Init ==
  /\ heap \in Schemas
  /\ data = SchemaRoot
  /\ userOptions \in UserOptions
  /\ args \in ArgLists
  /\ result = 0
  /\ opts = ","
  /\ index = 0
  /\ pc = "entry"
  /\ flag = NoLocals

\* src/index.ts:71-86: the working copy and the resolved options
Enter ==
  /\ pc = "entry"
  /\ LET c == structuredClone(heap, data)
     IN  /\ heap' = c.h
         /\ result' = c.v.v
  /\ opts' = ResolveSeparator(userOptions)
  /\ index' = 0
  /\ pc' = "loop"
  /\ UNCHANGED <<data, userOptions, args, flag>>

\* src/index.ts:200-219: one iteration of the argument loop
Iterate ==
  /\ pc = "loop"
  /\ index < Len(args)
  /\ LET r == LoopBody(heap, result, opts, args, index)
     IN  /\ heap' = r.h
         /\ flag' = r.locals
         /\ pc' = IF r.thrown THEN "thrown" ELSE "loop"
         /\ index' = IF r.thrown THEN index ELSE index + 1
  /\ UNCHANGED <<data, userOptions, args, result, opts>>

\* src/index.ts:225: the loop is over, the working copy is returned
Return ==
  /\ pc = "loop"
  /\ index >= Len(args)
  /\ pc' = "returned"
  /\ UNCHANGED <<heap, data, userOptions, args, result, opts, index, flag>>

Next == Enter \/ Iterate \/ Return

Spec == Init /\ [][Next]_vars

----------------------------------------------------------------------------
(* Vocabulary of the properties *)

\* an iteration of the argument loop is about to run, on the token Cur
Stepping == pc = "loop" /\ index < Len(args)
Cur == args[index + 1]

IsFlagToken(t) == StartsWith(t, Dashes)
HasEquals(t) == Includes(t, "=")

\* the text between the flag marker and the first "=" (or the end)
NameOf(t) ==
  LET body == SubSeq(t, 3, Len(t))
      i == IndexOfFrom(body, "=", 1)
  IN  IF i = 0 THEN body ELSE SubSeq(body, 1, i - 1)

\* the whole text after the first "="
RemainderOf(t) ==
  LET i == IndexOfFrom(t, "=", 1)
  IN  SubSeq(t, i + 1, Len(t))

IsNegation(t) == StartsWith(NameOf(t), NoPrefix)
TargetOf(t) ==
  IF IsNegation(t) THEN SubSeq(NameOf(t), 4, Len(NameOf(t))) ELSE NameOf(t)

\* the token after Cur can serve as Cur's value
UsableNext ==
  /\ index + 2 <= Len(args)
  /\ args[index + 2] # <<>>
  /\ ~IsFlagToken(args[index + 2])

\* the value the working copy holds at path, before and after a step
Before(path) == resolveValueAtPath(heap, result, path)
After(path) == resolveValueAtPath(heap', result', path)

Finished == pc \in {"returned", "thrown"}

\* another call with the same tokens and options, on the object obj
Again(obj) == arglet(heap, obj, args, userOptions)

\* the pieces joined by the separator
RECURSIVE Join(_, _)
Join(parts, c) ==
  IF Len(parts) = 0 THEN <<>>
  ELSE IF Len(parts) = 1 THEN parts[1]
  ELSE parts[1] \o <<c>> \o Join(Tail(parts), c)

\* the number of occurrences of c in s
RECURSIVE Count(_, _)
Count(s, c) ==
  IF s = <<>> THEN 0
  ELSE (IF Head(s) = c THEN 1 ELSE 0) + Count(Tail(s), c)

\* path a is path b or leads to it, segment by segment
SegmentPrefix(a, b) ==
  LET sa == Split(a, ".")
      sb == Split(b, ".")
  IN  Len(sa) <= Len(sb) /\ SubSeq(sb, 1, Len(sa)) = sa

\* the paths looked at for frame conditions
ObservedPaths == Names \cup {PathAC, ToStringKey}

----------------------------------------------------------------------------
(* C1 *)

\* the schema is deep-equal before and after every step
SchemaDeepEqualAcrossStep == DeepEqual(heap, VRef(data), heap', VRef(data'))

\* a step writes to no object that exists before it, other than the
\* objects of the working copy
WritesOnlyToWorkingCopy ==
  \A id \in 1..Len(heap) :
    id \notin Reach(heap', result') => heap'[id] = heap[id]

\* the returned object is not the schema and shares no object or array with it
ResultDisjointFromSchema ==
  /\ result' # data'
  /\ Reach(heap', result') \cap Reach(heap', data') = {}

\* C1: a call leaves the schema deep-equal to its value before the call,
\* whether it returns or throws; the returned object is a different object
\* that shares no mapping node or array with the schema, and every write made
\* while applying flags lands only in the working copy.
C1_SchemaNeverMutated ==
  [][ /\ SchemaDeepEqualAcrossStep
      /\ WritesOnlyToWorkingCopy
      /\ (pc' = "returned" => ResultDisjointFromSchema) ]_vars

\* the parts of C1 that concern own properties only
C1_OwnPropertiesPart ==
  [][ /\ SchemaDeepEqualAcrossStep
      /\ (pc' = "returned" => ResultDisjointFromSchema) ]_vars

----------------------------------------------------------------------------
(* C2 *)

----------------------------------------------------------------------------
(* C3 *)

\* C3: on an existing target path X, a negation flag --no-X assigns false
\* when the current value at X is a boolean and otherwise throws; a bare flag
\* --X (no "=", no usable following token) assigns true when the current
\* value is a boolean and otherwise throws; a throw assigns nothing.
C3_BooleanShortcuts ==
  [][ (Stepping /\ IsFlagToken(Cur) /\ ~HasEquals(Cur)
         /\ Before(TargetOf(Cur)) # VUndefined)
      => LET X == TargetOf(Cur)
             isBoolean == Before(X).t = "boolean"
         IN  /\ IsNegation(Cur) =>
                  IF isBoolean THEN pc' = "loop" /\ After(X) = VBool(FALSE)
                  ELSE pc' = "thrown" /\ heap' = heap
             /\ (~IsNegation(Cur) /\ ~UsableNext) =>
                  IF isBoolean THEN pc' = "loop" /\ After(X) = VBool(TRUE)
                  ELSE pc' = "thrown" /\ heap' = heap ]_vars

\* a negation flag has thrown on a non-boolean option after an earlier
\* bare flag was applied
C3_Witness ==
  /\ pc = "thrown"
  /\ index = 1
  /\ flag.outcome = "thrown"
  /\ flag.negated
  /\ flag.etype = "string"
  /\ resolveValueAtPath(heap, result, KeyV) = VBool(TRUE)

----------------------------------------------------------------------------
(* C4 *)

\* C4: on an existing target path X whose current value is not a boolean,
\* the token --X= (nothing after the "=") makes the call throw.
C4_TrailingEqualsThrows ==
  [][ (Stepping /\ IsFlagToken(Cur) /\ HasEquals(Cur) /\ ~IsNegation(Cur)
         /\ RemainderOf(Cur) = <<>>
         /\ Before(TargetOf(Cur)) # VUndefined
         /\ Before(TargetOf(Cur)).t # "boolean")
      => pc' = "thrown" ]_vars

----------------------------------------------------------------------------
(* C5 *)

\* C5: for a key k and a value v that does not start with "--", the calls
\* with ["--k=v"] and with ["--k", "v"] have the same outcome: both throw, or
\* both return deep-equal objects.
C5_ValueFormsEquivalent ==
  \A k \in Names, v \in RawValues :
    (Finished /\ args = <<Dashes \o k \o <<"=">> \o v>>)
    => LET spaced == arglet(heap, data, <<Dashes \o k, v>>, userOptions)
       IN  /\ spaced.thrown <=> pc = "thrown"
           /\ ~spaced.thrown =>
                DeepEqual(heap, VRef(result), spaced.h, VRef(spaced.result))

\* C5 for the values that are not empty and hold no "="
C5_PlainValuesPart ==
  \A k \in Names, v \in RawValues \ {ValEmpty, ValEq} :
    (Finished /\ args = <<Dashes \o k \o <<"=">> \o v>>)
    => LET spaced == arglet(heap, data, <<Dashes \o k, v>>, userOptions)
       IN  /\ spaced.thrown <=> pc = "thrown"
           /\ ~spaced.thrown =>
                DeepEqual(heap, VRef(result), spaced.h, VRef(spaced.result))

----------------------------------------------------------------------------
(* C6 *)

\* a token that is dispatched as a bare flag or as a negation flag
IsShortcutToken(t) == IsFlagToken(t) /\ (~HasEquals(t) \/ IsNegation(t))

----------------------------------------------------------------------------
(* C7 *)

\* the flag Cur, with the tokens after it, throws as the first flag applied
\* to a fresh copy of the schema
CurAloneThrowsAtOnce ==
  LoopBody(structuredClone(heap, data).h, structuredClone(heap, data).v.v,
           opts, SubSeq(args, index + 1, Len(args)), 0).thrown

\* C7: flags are applied in token order and duplicates are last-write-wins:
\* a flag whose existing target path an earlier flag of the list already
\* targeted raises no error by being repeated, and when it has been applied
\* the path holds the value this flag assigns.
C7_LastWriteWins ==
  [][ (Stepping /\ IsFlagToken(Cur)
         /\ Before(TargetOf(Cur)) # VUndefined
         /\ \E j \in 1..index :
              IsFlagToken(args[j]) /\ TargetOf(args[j]) = TargetOf(Cur)
         /\ ~CurAloneThrowsAtOnce)
      => /\ pc' = "loop"
         /\ index' = index + 1
         /\ flag'.outcome = "assigned"
         /\ After(TargetOf(Cur)) = flag'.parsed ]_vars

----------------------------------------------------------------------------
(* C8 *)

\* the array id holds exactly the pieces of raw between occurrences of c
HoldsPiecesOf(id, raw, c) ==
  LET n == Count(raw, c) + 1
      piece(i) == heap[id].props[IndexKey(i - 1)]
  IN  /\ heap[id].kind = "array"
      /\ DOMAIN heap[id].props = {IndexKey(i - 1) : i \in 1..n}
      /\ \A i \in 1..n : piece(i).t = "string" /\ ~Includes(piece(i).v, c)
      /\ Join([i \in 1..n |-> piece(i).v], c) = raw

\* C8: a non-negation flag with raw value v on an existing path assigns the
\* ordered pieces of v between occurrences of the configured separator when
\* v contains it, whatever the type of the existing value, and the string v
\* unchanged otherwise; the separator is "," unless "|" is configured.
C8_CoercionByRawText ==
  (pc # "entry" /\ flag.outcome \in {"assigned", "thrown"}
     /\ ~flag.negated /\ flag.raw.def)
  => /\ opts = (IF userOptions.def THEN "|" ELSE ",")
     /\ flag.outcome = "assigned"
     /\ IF Includes(flag.raw.s, opts)
          THEN flag.parsed.t = "ref" /\ HoldsPiecesOf(flag.parsed.v, flag.raw.s, opts)
          ELSE flag.parsed = VStr(flag.raw.s)

\* a boolean option has been overwritten with the array split on "|"
C8_Witness ==
  /\ pc = "loop"
  /\ opts = "|"
  /\ flag.outcome = "assigned"
  /\ flag.etype = "boolean"
  /\ flag.raw = Some(ValPipe)
  /\ flag.parsed.t = "ref"
  /\ heap[flag.parsed.v].props[IndexKey(1)] = VStr(<<"2">>)

----------------------------------------------------------------------------
(* C9 *)

\* C9: after a valued flag --p=v on an existing dotted path p, resolving p
\* yields the assigned value, and every path q that is neither a prefix of p
\* nor prefixed by p resolves to the same value as before.
C9_OnlyTargetChanges ==
  [][ (Stepping /\ IsFlagToken(Cur) /\ HasEquals(Cur) /\ ~IsNegation(Cur)
         /\ Before(NameOf(Cur)) # VUndefined)
      => LET p == NameOf(Cur)
         IN  /\ pc' = "loop"
             /\ After(p) = flag'.parsed
             /\ \A q \in ObservedPaths :
                  (~SegmentPrefix(p, q) /\ ~SegmentPrefix(q, p))
                  => DeepEqual(heap, Before(q), heap', After(q)) ]_vars

\* C9 for the target paths that do not lead through __proto__
C9_OwnPathsPart ==
  [][ (Stepping /\ IsFlagToken(Cur) /\ HasEquals(Cur) /\ ~IsNegation(Cur)
         /\ Before(NameOf(Cur)) # VUndefined
         /\ NameOf(Cur) # PathProtoToString)
      => LET p == NameOf(Cur)
         IN  /\ pc' = "loop"
             /\ After(p) = flag'.parsed
             /\ \A q \in ObservedPaths :
                  (~SegmentPrefix(p, q) /\ ~SegmentPrefix(q, p))
                  => DeepEqual(heap, Before(q), heap', After(q)) ]_vars

----------------------------------------------------------------------------
(* C10 *)

\* the token of the parseFlag call whose locals `flag` holds
Dispatched == IF pc = "thrown" THEN args[index + 1] ELSE args[index]

\* C10: a --name=value token is split once, on its first "=": the flag name
\* is the text between "--" and the first "=", and the raw value is the whole
\* remainder of the token after it, further "=" characters included.
C10_SplitOnFirstEquals ==
  (pc \in {"loop", "returned", "thrown"} /\ flag.outcome # "none"
     /\ HasEquals(Dispatched))
  => /\ flag.name = NameOf(Dispatched)
     /\ flag.raw = Some(RemainderOf(Dispatched))

====
